---- MODULE Spec2Model ----
(***************************************************************************)
(* Model of multi_app.py: a Flask service that keeps one "Project Status"  *)
(* task per Asana project up to date with a budget summary.                *)
(*                                                                         *)
(* The remote Asana store (projects, custom field settings, tasks) is the  *)
(* shared state; every gateway call of the client may fail transiently.    *)
(* Each request is handled by a worker that advances one gateway call (or  *)
(* one local block between two gateway calls) per step, so that requests   *)
(* dispatched concurrently interleave at the gateway calls.                *)
(***************************************************************************)
EXTENDS Integers, Sequences, FiniteSets, TLC

\* ------------------------------------------------------------------------
\* Bounds of the model
\* ------------------------------------------------------------------------
MaxReqs == 2
MaxFails == 1
MaxEvents == 2
MaxClock == 1
MaxTasks == 2

\* ------------------------------------------------------------------------
\* Program constants
\* ------------------------------------------------------------------------
TEMPLATE_PROJECT_ID == "P1"
STATUS_TASK_NAME == "Project Status"
ESTIMATED_COST_FIELD == "Budget"
ACTUAL_COST_FIELD == "Actual Cost"
STATUS_TASK_NOTES == [kind |-> "placeholder"]

\* ------------------------------------------------------------------------
\* The remote store's universe
\* ------------------------------------------------------------------------
Projects == {"P1", "P2", "P3"}
\* the order in which projects.find_all enumerates a workspace
ProjectOrder == <<"P1", "P2", "P3">>
WorkspaceOf(p) == IF p = "P3" THEN "W2" ELSE "W1"
ProjectName(p) == IF p = "P1" THEN "Alpha" ELSE IF p = "P2" THEN "Beta" ELSE "Gamma"
FieldNames == {ESTIMATED_COST_FIELD, ACTUAL_COST_FIELD}
\* gid of the custom field with a given display name
FieldGid(name) == IF name = ESTIMATED_COST_FIELD THEN "cf_budget" ELSE "cf_actual"
\* Python's None for a gid (a string) and for a task gid (a number)
NoField == "None"
NoGid == 0
\* a custom field without number_value, or a task without the field
NoValue == -1
\* the request carries no X-Hook-Secret header / WEBHOOK_SECRET has no entry
NoSecret == "None"
Secrets == {"abc123", "xyz789", "def456"}
Workers == {1, 2}

VARIABLES
    cfs,        \* remote: project -> names of its custom field settings
    tasks,      \* remote: sequence of tasks, a task's gid is its index
    secret,     \* WEBHOOK_SECRET['secret'], NoSecret while the dict is empty
    traffic,    \* the requests clients may send
    reqsLeft,   \* how many requests may still arrive
    req,        \* worker -> the request it handles and its locals
    failsLeft,  \* transient gateway failures the environment may still inject
    clock,      \* the wall clock, in seconds
    webhooks    \* remote: the resources of the webhooks registered so far

vars == <<cfs, tasks, secret, traffic, reqsLeft, req, failsLeft, clock, webhooks>>

\* ------------------------------------------------------------------------
\* Helpers on sequences
\* ------------------------------------------------------------------------
Range(s) == {s[i] : i \in 1..Len(s)}
InSeq(x, s) == \E i \in 1..Len(s) : s[i] = x
SeqsUpTo(S, n) == UNION {[1..k -> S] : k \in 0..n}

RECURSIVE SumSeq(_)
SumSeq(s) == IF Len(s) = 0 THEN 0 ELSE Head(s) + SumSeq(Tail(s))

\* ------------------------------------------------------------------------
\* The gateway's read operations on the remote store
\* ------------------------------------------------------------------------
TaskExists(gid) == gid \in 1..Len(tasks)

\* client.tasks.find_by_project: the project's tasks in enumeration order
ProjectTasks(p) ==
    LET Member(i) == InSeq(p, tasks[i].projects)
    IN  SelectSeq([i \in 1..Len(tasks) |-> i], Member)

\* client.projects.find_all({'workspace': ws})
WorkspaceProjectsAll(ws) == ProjectOrder
WorkspaceProjects(ws) ==
    LET InWs(p) == WorkspaceOf(p) = ws
    IN  SelectSeq(ProjectOrder, InWs)

\* get_project_workspace: None when the gateway call fails
GetProjectWorkspace(p, fail) == IF fail THEN NoField ELSE WorkspaceOf(p)

\* get_all_projects_in_workspace: [] when the gateway call fails
GetAllProjectsInWorkspace(ws, fail) == IF fail THEN <<>> ELSE WorkspaceProjects(ws)

\* get_custom_fields: the pair of gids, (None, None) when the call fails
GetCustomFields(p, fail) ==
    IF fail THEN <<NoField, NoField>>
    ELSE << IF ESTIMATED_COST_FIELD \in cfs[p] THEN FieldGid(ESTIMATED_COST_FIELD) ELSE NoField,
            IF ACTUAL_COST_FIELD \in cfs[p] THEN FieldGid(ACTUAL_COST_FIELD) ELSE NoField >>

\* "if estimated and actual" / "if not estimated_cost_gid or not actual_cost_gid"
BothFieldsDropsActual(gids) == gids[1] # NoField
BothFields(gids) == gids[1] # NoField /\ gids[2] # NoField

\* find_status_task: gid of the first task with the sentinel name, None when
\* there is none and also when the listing fails
FirstStatus(p) ==
    LET named == {i \in Range(ProjectTasks(p)) : tasks[i].name = STATUS_TASK_NAME}
    IN  IF named = {} THEN NoGid ELSE CHOOSE i \in named : \A j \in named : i <= j
FindStatusTask(p, fail) == IF fail THEN NoGid ELSE FirstStatus(p)

\* the task create_status_task adds to the store
NewStatusTask(p) ==
    [name |-> STATUS_TASK_NAME, projects |-> <<p>>, est |-> NoValue, act |-> NoValue,
     notes |-> STATUS_TASK_NOTES]

\* ------------------------------------------------------------------------
\* Requests
\* ------------------------------------------------------------------------
\* request.json: no usable JSON object ('events' absent), a body that does not
\* parse, or an object with a list of events
NoBody == [kind |-> "none", events |-> <<>>]
Malformed == [kind |-> "malformed", events |-> <<>>]
EventsBody(evs) == [kind |-> "events", events |-> evs]
\* an event: the resource's resource_type ("none": no 'resource' key) and gid
\* (NoGid: no gid)
TaskEvent(gid) == [rtype |-> "task", gid |-> gid]
\* an element of 'events' that is not an object, a number for instance
BadEvent == [rtype |-> "bad", gid |-> NoGid]

Request(route, hook, body) == [route |-> route, hook |-> hook, body |-> body]

\* 'X-Hook-Secret' in request.headers
HasHookSecretNever(rq) == FALSE
HasHookSecretAlways(rq) == TRUE
HasHookSecret(rq) == rq.hook # NoSecret

\* ------------------------------------------------------------------------
\* determine_projects_to_update: the computations between its gateway calls
\* ------------------------------------------------------------------------
\* the record of one gateway call of a determination
Call(op, proj, gid, ok) == [op |-> op, proj |-> proj, gid |-> gid, ok |-> ok]

\* line 220: "if event_data and 'events' in event_data"; event_data is None
\* (NoBody) when the caller passes no argument
Events(event_data) == IF event_data.kind = "events" THEN event_data.events ELSE <<>>

\* line 223-225: the event names a task with a gid
IsTaskEvent(ev) == ev.rtype = "task" /\ ev.gid # NoGid

\* line 223: "'resource' in event" raises for an element that is not an object
IsBadEvent(ev) == ev.rtype = "bad"

\* lines 222-225: the first position from j on at which the loop over the
\* events does not just pass on: a task event (a fetch) or an element that
\* raises; Len(evs) + 1 when the loop ends
RECURSIVE NextEvent(_, _)
NextEvent(evs, j) ==
    IF j > Len(evs) THEN j
    ELSE IF IsTaskEvent(evs[j]) \/ IsBadEvent(evs[j]) THEN j
    ELSE NextEvent(evs, j + 1)

\* lines 230-232: the first position from i on of a project of the fetched
\* task that is not yet in projects_to_update
RECURSIVE NextProject(_, _, _)
NextProject(ps, i, acc) ==
    IF i > Len(ps) THEN i
    ELSE IF InSeq(ps[i], acc) THEN NextProject(ps, i + 1, acc)
    ELSE i

\* line 241: "if not projects_to_update"
NeedsFallbackAlways(acc) == TRUE
NeedsFallback(acc) == acc = <<>>

\* ------------------------------------------------------------------------
\* update_project_metrics: the aggregation and the summary
\* ------------------------------------------------------------------------
\* lines 142-150: a cost read from the task's detail, 0 when the field or its
\* number_value is missing
CostOf(v) == IF v = NoValue THEN 0 ELSE v

\* line 133: "if task_gid == status_task_gid: continue"
\* (the variant skips the status task only while its note is the placeholder)
IsSkippedWhilePlaceholder(gid, status) ==
    gid = status /\ tasks[gid].notes = STATUS_TASK_NOTES
IsSkipped(gid, status) == gid = status

\* the next position of the task list, from k on, that the loop does not skip
RECURSIVE NextIndex(_, _, _)
NextIndex(tlist, k, status) ==
    IF k > Len(tlist) THEN k
    ELSE IF IsSkipped(tlist[k], status) THEN NextIndex(tlist, k + 1, status)
    ELSE k

\* lines 156 and 161: "if actual_cost > 0" and "if actual_cost > estimated_cost"
IsOverBudgetOrEqual(actual_cost, estimated_cost) ==
    actual_cost > 0 /\ actual_cost >= estimated_cost
IsOverBudget(actual_cost, estimated_cost) ==
    actual_cost > 0 /\ actual_cost > estimated_cost

\* lines 139-167: one task's contribution to the running totals a
Accumulate(a, name, detail) ==
    LET estimated_cost == CostOf(detail.est)
        actual_cost == CostOf(detail.act)
    IN  [total_tasks |-> a.total_tasks + 1,
         total_estimated |-> a.total_estimated + estimated_cost,
         total_actual |-> IF actual_cost > 0 THEN a.total_actual + actual_cost
                          ELSE a.total_actual,
         completed_tasks |-> IF actual_cost > 0 THEN a.completed_tasks + 1
                             ELSE a.completed_tasks,
         overbudget_tasks |->
             IF IsOverBudget(actual_cost, estimated_cost)
             THEN Append(a.overbudget_tasks,
                         [name |-> name, estimated |-> estimated_cost,
                          actual |-> actual_cost,
                          difference |-> actual_cost - estimated_cost])
             ELSE a.overbudget_tasks]

\* lines 115-119
ZeroTotals ==
    [total_tasks |-> 0, total_estimated |-> 0, total_actual |-> 0,
     completed_tasks |-> 0, overbudget_tasks |-> <<>>]

\* ---- the rates as the interpreter computes them: "num / den * 100" in
\* IEEE-754 double precision (each operation rounded to the nearest double,
\* ties to even) and the ":.1f" rendering of the resulting double (the nearest
\* tenth of its exact value, ties to even). A double is m * 2^e with m of at
\* most MantissaBits binary digits; m is a sequence of digits to the base
\* Base, most significant first, as it does not fit a machine integer here.
MantissaBits == 53
LimbBits == 15
Base == 2 ^ LimbBits

\* the digits of a natural
RECURSIVE Limbs(_)
Limbs(n) == IF n < Base THEN <<n>> ELSE Append(Limbs(n \div Base), n % Base)

\* the natural of the digits a
RECURSIVE LimbsValTo(_, _)
LimbsValTo(a, i) == IF i = 0 THEN 0 ELSE LimbsValTo(a, i - 1) * Base + a[i]
LimbsVal(a) == LimbsValTo(a, Len(a))

\* a[1..i] * c + carry, for 0 <= c < Base and 0 <= carry < Base
RECURSIVE MulTo(_, _, _, _)
MulTo(a, i, c, carry) ==
    IF i = 0 THEN (IF carry = 0 THEN <<>> ELSE <<carry>>)
    ELSE Append(MulTo(a, i - 1, c, (a[i] * c + carry) \div Base),
                (a[i] * c + carry) % Base)
MulSmall(a, c) == MulTo(a, Len(a), c, 0)
AddOne(a) == MulTo(a, Len(a), 1, 1)

\* a * 2^(n * LimbBits)
ShiftLimbs(a, n) == a \o [i \in 1..n |-> 0]

\* the remainder of a[1..i] by den, for 0 < den <= Base
RECURSIVE RemTo(_, _, _)
RemTo(a, i, den) == IF i = 0 THEN 0 ELSE (RemTo(a, i - 1, den) * Base + a[i]) % den
\* the quotient of a by den
DivSmall(a, den) ==
    [i \in 1..Len(a) |-> (RemTo(a, i - 1, den) * Base + a[i]) \div den]

\* the number of binary digits of a
BitLenSmall(n) == IF n = 0 THEN 0 ELSE CHOOSE k \in 1..LimbBits : 2 ^ (k - 1) <= n /\ n < 2 ^ k
BitLen(a) ==
    IF \A i \in 1..Len(a) : a[i] = 0 THEN 0
    ELSE LET j == CHOOSE i \in 1..Len(a) : a[i] # 0 /\ \A h \in 1..(i - 1) : a[h] = 0
         IN  (Len(a) - j) * LimbBits + BitLenSmall(a[j])

\* the binary digit of a at place p (place 0 is the last)
BitAt(a, p) ==
    LET i == Len(a) - (p \div LimbBits)
    IN  IF i < 1 THEN 0 ELSE (a[i] \div 2 ^ (p % LimbBits)) % 2
\* some binary digit of a below place p is 1
AnyBelow(a, p) ==
    LET i == Len(a) - (p \div LimbBits)
    IN  \/ \E h \in 1..Len(a) : h > i /\ a[h] # 0
        \/ i >= 1 /\ a[i] % 2 ^ (p % LimbBits) # 0
\* a \div 2^k
ShiftRight(a, k) ==
    LET n == Len(a) - (k \div LimbBits)
    IN  IF n < 1 THEN <<0>> ELSE DivSmall(SubSeq(a, 1, n), 2 ^ (k % LimbBits))
IsOdd(a) == a[Len(a)] % 2 = 1

\* the nearest double to a * 2^e (plus something below its last digit when
\* sticky), ties to even
RoundToDouble(a, e, sticky) ==
    LET k == BitLen(a) - MantissaBits
        q == ShiftRight(a, k)
        up == BitAt(a, k - 1) = 1 /\ (sticky \/ AnyBelow(a, k - 1) \/ IsOdd(q))
    IN  IF k <= 0 THEN [m |-> a, e |-> e]
        ELSE [m |-> IF up THEN AddOne(q) ELSE q, e |-> e + k]

\* the double num / den, for 0 < num and 0 < den <= Base: the quotient of
\* num * 2^(DivLimbs * LimbBits) by den has more than MantissaBits digits
DivLimbs == 5
DivDouble(num, den) ==
    LET a == ShiftLimbs(Limbs(num), DivLimbs)
    IN  RoundToDouble(DivSmall(a, den), 0 - DivLimbs * LimbBits, RemTo(a, Len(a), den) # 0)

\* the double x * 100
Times100(x) == RoundToDouble(MulSmall(x.m, 100), x.e, FALSE)

\* the ":.1f" rendering of a double below 2^MantissaBits, in tenths: the
\* integer nearest to 10 * x, ties to even
TenthsOf(x) ==
    LET a == MulSmall(x.m, 10)
        k == 0 - x.e
        whole == LimbsVal(ShiftRight(a, k))
        up == BitAt(a, k - 1) = 1 /\ (AnyBelow(a, k - 1) \/ whole % 2 = 1)
    IN  IF k <= 0 THEN LimbsVal(a) * 2 ^ (0 - k)
        ELSE IF up THEN whole + 1
        ELSE whole

\* the ":.1f" rendering of num / den * 100, in tenths of a percent
PercentTenths(num, den) ==
    IF num = 0 THEN 0 ELSE TenthsOf(Times100(DivDouble(num, den)))

\* line 170
PercentComplete(completed_tasks, total_tasks) ==
    IF total_tasks > 0 THEN PercentTenths(completed_tasks, total_tasks) ELSE 0
\* line 171
BudgetProgressNoGuard(total_actual, total_estimated) ==
    PercentTenths(total_actual, IF total_estimated > 0 THEN total_estimated ELSE 1)
BudgetProgress(total_actual, total_estimated) ==
    IF total_estimated > 0 THEN PercentTenths(total_actual, total_estimated) ELSE 0

\* lines 177-202: the rendered note. Amounts are whole currency units, so the
\* ":.2f" rendering of each is exact.
Summary(project_name, a, current_time) ==
    [kind |-> "summary",
     project_name |-> project_name,
     total_estimated |-> a.total_estimated,
     total_actual |-> a.total_actual,
     remaining |-> a.total_estimated - a.total_actual,
     budget_progress |-> BudgetProgress(a.total_actual, a.total_estimated),
     total_tasks |-> a.total_tasks,
     completed_tasks |-> a.completed_tasks,
     percent_complete |-> PercentComplete(a.completed_tasks, a.total_tasks),
     overbudget_tasks |-> a.overbudget_tasks,
     total_overbudget |->
         SumSeq([i \in 1..Len(a.overbudget_tasks) |-> a.overbudget_tasks[i].difference]),
     updated |-> current_time]

\* ------------------------------------------------------------------------
\* A worker: the request it handles, the locals of the handler and of the
\* update_project_metrics call in progress, and the response
\* ------------------------------------------------------------------------
NoResponse == [status |-> 0, tag |-> "none", hook |-> NoSecret, results |-> <<>>]
\* the 500 responses of handle_webhook (line 292) and register_webhook (lines
\* 338-341 and 357-362)
ErrorResponse == [status |-> 500, tag |-> "error", hook |-> NoSecret, results |-> <<>>]

IdleReq ==
    [pc |-> "idle", route |-> "none", hook |-> NoSecret, body |-> NoBody,
     event_data |-> NoBody, ej |-> 0, plist |-> <<>>, pi |-> 0,
     targets |-> <<>>, evTargets |-> <<>>, dlog |-> <<>>, idx |-> 0, results |-> <<>>,
     proj |-> "", now |-> 0, status |-> NoGid, tlist |-> <<>>, k |-> 0,
     totals |-> ZeroTotals, summary |-> STATUS_TASK_NOTES,
     gw |-> FALSE, det |-> FALSE, written |-> {}, before |-> <<>>, outcome |-> "none",
     afail |-> FALSE, ffail |-> FALSE, secret0 |-> NoSecret,
     names |-> <<>>, writes |-> 0, trace |-> <<>>,
     resp |-> NoResponse]
OffReq == [IdleReq EXCEPT !.pc = "off"]

\* a worker takes the next request
Fresh(rq) ==
    [IdleReq EXCEPT !.route = rq.route, !.hook = rq.hook, !.body = rq.body,
                    !.secret0 = secret]
CanTake(w, rq, route) ==
    /\ req[w].pc \in {"idle", "done"}
    /\ reqsLeft > 0
    /\ rq.route = route
    /\ reqsLeft' = reqsLeft - 1
    /\ UNCHANGED traffic

\* update_results[project_id] = success
SetResult(results, p, v) ==
    [x \in (DOMAIN results) \cup {p} |-> IF x = p THEN v ELSE results[x]]

\* the notes of the project's tasks, by gid
NotesOf(p) == [t \in Range(ProjectTasks(p)) |-> tasks[t].notes]

\* lines 280-284, 299-308, 369-372: update_project_metrics returned ok to the
\* loop of the handler
UpmReturnAbortsOnFailure(r, ok, outcome) ==
    IF ok
    THEN [r EXCEPT !.pc = "loop", !.results = SetResult(r.results, r.proj, ok),
                   !.outcome = outcome]
    ELSE [r EXCEPT !.pc = "done", !.outcome = outcome,
                   !.resp = [status |-> 500, tag |-> "error", hook |-> NoSecret,
                             results |-> <<>>]]
UpmReturn(r, ok, outcome) ==
    [r EXCEPT !.pc = IF r.route = "update-status" THEN "us_name" ELSE "loop",
              !.results = SetResult(r.results, r.proj, ok),
              !.outcome = outcome,
              !.tlist = <<>>, !.k = 0, !.totals = ZeroTotals,
              !.summary = STATUS_TASK_NOTES]

\* lines 212-214: a gateway call of update_project_metrics raised; the call
\* returns False
ExceptReturnSkipsTask(r, outcome) ==
    IF outcome = "detailfail"
    THEN LET k == r.k + 1
         IN  [r EXCEPT !.k = k, !.pc = IF k > Len(r.tlist) THEN "upm_name" ELSE "upm_detail"]
    ELSE UpmReturn(r, FALSE, outcome)
ExceptReturn(r, outcome) == UpmReturn(r, FALSE, outcome)

\* any(results.values())
AllTrue(results) == \A p \in DOMAIN results : results[p]
AnyTrue(results) == \E p \in DOMAIN results : results[p]

\* lines 286-289, 310-321, 374-385, 410-482: the response after the loop
Respond(r) ==
    IF r.route = "webhook"
    THEN [status |-> 200, tag |-> "received", hook |-> NoSecret, results |-> r.results]
    ELSE IF r.route = "update-status"
    THEN [status |-> 200, tag |-> "html", hook |-> NoSecret, results |-> r.results]
    ELSE IF AnyTrue(r.results)
    THEN [status |-> 200, tag |-> "success", hook |-> NoSecret, results |-> r.results]
    ELSE [status |-> 500, tag |-> "error", hook |-> NoSecret, results |-> r.results]

\* a gateway call may fail while the environment has failures left
Fails == IF failsLeft > 0 THEN {FALSE, TRUE} ELSE {FALSE}
Spend(fail) == failsLeft' = IF fail THEN failsLeft - 1 ELSE failsLeft

\* create_status_task, lines 89-99: tasks.create_in_workspace; the gid returned
\* (None when the call fails) and the store after the call
CreateInWorkspace(p, fail) ==
    IF fail THEN [gid |-> NoGid, tasks |-> tasks]
    ELSE [gid |-> Len(tasks) + 1, tasks |-> Append(tasks, NewStatusTask(p))]

\* line 263: WEBHOOK_SECRET['secret'] = secret
StoreSecretOnce(old, s) == IF old = NoSecret THEN s ELSE old
StoreSecret(old, s) == s

\* line 266: response.headers['X-Hook-Secret'] = secret (the local of line 262)
EchoStored(r, stored) == stored
EchoValue(r, stored) == r.hook

\* ------------------------------------------------------------------------
\* Actions: the handlers' entries
\* ------------------------------------------------------------------------
\* handle_webhook, lines 261-263: the handshake branch up to the store
WebhookHandshake(w) ==
    \E rq \in traffic :
        /\ CanTake(w, rq, "webhook")
        /\ HasHookSecret(rq)
        /\ secret' = StoreSecret(secret, rq.hook)
        /\ req' = [req EXCEPT ![w] =
                     [Fresh(rq) EXCEPT !.pc = "hs_respond", !.secret0 = secret]]
        /\ UNCHANGED <<cfs, tasks, failsLeft, clock, webhooks>>

\* handle_webhook, lines 265-269: the echo
HandshakeRespond(w) ==
    /\ req[w].pc = "hs_respond"
    /\ req' = [req EXCEPT ![w] =
                 [@ EXCEPT !.pc = "done",
                           !.resp = [status |-> 200, tag |-> "echo",
                                     hook |-> EchoValue(req[w], secret),
                                     results |-> <<>>]]]
    /\ UNCHANGED <<cfs, tasks, secret, traffic, reqsLeft, failsLeft, clock, webhooks>>

\* line 255: determine_projects_to_update returns
DetReturn(r) == [r EXCEPT !.pc = "loop", !.det = TRUE, !.ej = 0, !.plist = <<>>, !.pi = 0]

\* lines 222-244: the loop over the events from position j on, up to its next
\* gateway call: the fetch of an event's task, or, when the loop has ended,
\* the workspace lookup of the fallback or the return; an element that is not
\* an object raises, and handle_webhook answers 500 (lines 290-292)
DetAdvance(r, j) ==
    LET evs == Events(r.event_data)
        n == NextEvent(evs, j)
        r0 == [r EXCEPT !.ej = 0, !.plist = <<>>, !.pi = 0]
    IN  IF n <= Len(evs)
        THEN IF IsBadEvent(evs[n])
             THEN [r0 EXCEPT !.pc = "done", !.resp = ErrorResponse]
             ELSE [r0 EXCEPT !.pc = "det_task", !.ej = n]
        ELSE IF NeedsFallback(r.targets)
             THEN [r0 EXCEPT !.pc = "det_workspace", !.evTargets = r.targets]
             ELSE DetReturn([r0 EXCEPT !.evTargets = r.targets])

\* handle_webhook, lines 272-278 and 290-292: an event delivery up to the
\* first gateway call of the target determination, which is given the
\* request's body (line 277); a body that does not parse ends the request
\* with 500
WebhookEvent(w) ==
    \E rq \in traffic :
        /\ CanTake(w, rq, "webhook")
        /\ ~HasHookSecret(rq)
        /\ req' = [req EXCEPT ![w] =
                     IF rq.body.kind = "malformed"
                     THEN [Fresh(rq) EXCEPT !.pc = "done", !.resp = ErrorResponse]
                     ELSE DetAdvance([Fresh(rq) EXCEPT !.event_data = rq.body], 1)]
        /\ UNCHANGED <<cfs, tasks, secret, failsLeft, clock, webhooks>>

\* setup, line 297: determine_projects_to_update() without event data,
\* whatever the request's body
Setup(w) ==
    \E rq \in traffic :
        /\ CanTake(w, rq, "setup")
        /\ req' = [req EXCEPT ![w] = DetAdvance(Fresh(rq), 1)]
        /\ UNCHANGED <<cfs, tasks, secret, failsLeft, clock, webhooks>>

\* manual_update, line 367: determine_projects_to_update() without event
\* data, whatever the request's body
ManualUpdate(w) ==
    \E rq \in traffic :
        /\ CanTake(w, rq, "update")
        /\ req' = [req EXCEPT ![w] = DetAdvance(Fresh(rq), 1)]
        /\ UNCHANGED <<cfs, tasks, secret, failsLeft, clock, webhooks>>

\* update_status, line 391: determine_projects_to_update() without event
\* data, whatever the request's body
UpdateStatus(w) ==
    \E rq \in traffic :
        /\ CanTake(w, rq, "update-status")
        /\ req' = [req EXCEPT ![w] = DetAdvance(Fresh(rq), 1)]
        /\ UNCHANGED <<cfs, tasks, secret, failsLeft, clock, webhooks>>

\* ------------------------------------------------------------------------
\* Actions: determine_projects_to_update, one gateway call per step
\* ------------------------------------------------------------------------
\* lines 227-232 and 237-238: the fetch of the event's task; a failure is
\* caught and the loop goes on with the next event
DetTask(w) ==
    LET r == req[w]
        gid == Events(r.event_data)[r.ej].gid
    IN
    /\ r.pc = "det_task"
    /\ \E fail \in Fails :
          LET ok == ~fail /\ TaskExists(gid)
              r1 == [r EXCEPT !.gw = TRUE,
                              !.dlog = Append(r.dlog, Call("task", "", gid, ok))]
              ps == tasks[gid].projects
              i == NextProject(ps, 1, r.targets)
          IN  /\ req' = [req EXCEPT ![w] =
                    IF ~ok THEN DetAdvance(r1, r.ej + 1)
                    ELSE IF i > Len(ps) THEN DetAdvance(r1, r.ej + 1)
                    ELSE [r1 EXCEPT !.pc = "det_fields", !.plist = ps, !.pi = i]]
              /\ Spend(fail)
    /\ UNCHANGED <<cfs, tasks, secret, traffic, reqsLeft, clock, webhooks>>

\* lines 233-236: the custom fields of one project of the fetched task
DetFields(w) ==
    LET r == req[w]
        p == r.plist[r.pi]
    IN
    /\ r.pc = "det_fields"
    /\ \E fail \in Fails :
          LET gids == GetCustomFields(p, fail)
              acc == IF BothFields(gids) THEN Append(r.targets, p) ELSE r.targets
              r1 == [r EXCEPT !.gw = TRUE, !.targets = acc,
                              !.dlog = Append(r.dlog, Call("fields", p, NoGid, ~fail))]
              i == NextProject(r.plist, r.pi + 1, acc)
          IN  /\ req' = [req EXCEPT ![w] =
                    IF i > Len(r.plist) THEN DetAdvance(r1, r.ej + 1)
                    ELSE [r1 EXCEPT !.pi = i]]
              /\ Spend(fail)
    /\ UNCHANGED <<cfs, tasks, secret, traffic, reqsLeft, clock, webhooks>>

\* lines 243-244: the workspace of the reference project
DetWorkspace(w) ==
    LET r == req[w] IN
    /\ r.pc = "det_workspace"
    /\ \E fail \in Fails :
          LET workspace_id == GetProjectWorkspace(TEMPLATE_PROJECT_ID, fail)
              r1 == [r EXCEPT !.gw = TRUE,
                              !.dlog = Append(r.dlog, Call("workspace", TEMPLATE_PROJECT_ID,
                                                           NoGid, ~fail))]
          IN  /\ req' = [req EXCEPT ![w] =
                    IF workspace_id = NoField THEN DetReturn(r1)
                    ELSE [r1 EXCEPT !.pc = "det_projects"]]
              /\ Spend(fail)
    /\ UNCHANGED <<cfs, tasks, secret, traffic, reqsLeft, clock, webhooks>>

\* line 246: the projects of the workspace
DetProjects(w) ==
    LET r == req[w] IN
    /\ r.pc = "det_projects"
    /\ \E fail \in Fails :
          LET workspace_id == WorkspaceOf(TEMPLATE_PROJECT_ID)
              all_projects == GetAllProjectsInWorkspace(workspace_id, fail)
              r1 == [r EXCEPT !.gw = TRUE,
                              !.dlog = Append(r.dlog, Call("projects", workspace_id,
                                                           NoGid, ~fail))]
          IN  /\ req' = [req EXCEPT ![w] =
                    IF all_projects = <<>> THEN DetReturn(r1)
                    ELSE [r1 EXCEPT !.pc = "det_wsfields", !.plist = all_projects, !.pi = 1]]
              /\ Spend(fail)
    /\ UNCHANGED <<cfs, tasks, secret, traffic, reqsLeft, clock, webhooks>>

\* lines 249-253: the custom fields of one project of the workspace
DetWsFields(w) ==
    LET r == req[w]
        p == r.plist[r.pi]
    IN
    /\ r.pc = "det_wsfields"
    /\ \E fail \in Fails :
          LET gids == GetCustomFields(p, fail)
              r1 == [r EXCEPT !.gw = TRUE,
                              !.targets = IF BothFields(gids) THEN Append(r.targets, p)
                                          ELSE r.targets,
                              !.dlog = Append(r.dlog, Call("fields", p, NoGid, ~fail))]
          IN  /\ req' = [req EXCEPT ![w] =
                    IF r.pi + 1 > Len(r.plist) THEN DetReturn(r1)
                    ELSE [r1 EXCEPT !.pi = r.pi + 1]]
              /\ Spend(fail)
    /\ UNCHANGED <<cfs, tasks, secret, traffic, reqsLeft, clock, webhooks>>

\* update_status, line 402: the name shown when the project fetch fails
DefaultName(p) == "Project " \o p

\* update_status, lines 397-407: the project's name for the results table
UsName(w) ==
    LET r == req[w] IN
    /\ r.pc = "us_name"
    /\ \E fail \in Fails :
          /\ req' = [req EXCEPT ![w] =
                [r EXCEPT !.pc = "loop",
                          !.names = SetResult(r.names, r.proj,
                                        IF fail THEN DefaultName(r.proj)
                                        ELSE ProjectName(r.proj))]]
          /\ Spend(fail)
    /\ UNCHANGED <<cfs, tasks, secret, traffic, reqsLeft, clock, webhooks>>

\* health, lines 323-326
Health(w) ==
    \E rq \in traffic :
        /\ CanTake(w, rq, "health")
        /\ req' = [req EXCEPT ![w] =
                     [Fresh(rq) EXCEPT !.pc = "done",
                                       !.resp = [status |-> 200, tag |-> "healthy",
                                                 hook |-> NoSecret, results |-> <<>>]]]
        /\ UNCHANGED <<cfs, tasks, secret, failsLeft, clock, webhooks>>

\* register_webhook, lines 331-341: the workspace of the reference project
RegisterWebhook(w) ==
    \E rq \in traffic :
        /\ CanTake(w, rq, "register-webhook")
        /\ \E fail \in Fails :
              LET workspace_id == GetProjectWorkspace(TEMPLATE_PROJECT_ID, fail)
              IN  /\ req' = [req EXCEPT ![w] =
                        IF workspace_id = NoField
                        THEN [Fresh(rq) EXCEPT !.pc = "done", !.gw = TRUE,
                                               !.resp = ErrorResponse]
                        ELSE [Fresh(rq) EXCEPT !.pc = "rw_create", !.gw = TRUE]]
                  /\ Spend(fail)
        /\ UNCHANGED <<cfs, tasks, secret, clock, webhooks>>

\* register_webhook, lines 344-362: the webhook is created for the workspace
RegisterCreate(w) ==
    LET r == req[w] IN
    /\ r.pc = "rw_create"
    /\ \E fail \in Fails :
          /\ webhooks' = IF fail THEN webhooks
                         ELSE Append(webhooks, WorkspaceOf(TEMPLATE_PROJECT_ID))
          /\ req' = [req EXCEPT ![w] =
                [r EXCEPT !.pc = "done",
                          !.resp = IF fail THEN ErrorResponse
                                   ELSE [status |-> 200, tag |-> "success",
                                         hook |-> NoSecret, results |-> <<>>]]]
          /\ Spend(fail)
    /\ UNCHANGED <<cfs, tasks, secret, traffic, reqsLeft, clock>>

\* ------------------------------------------------------------------------
\* Actions: the loop over the targets
\* ------------------------------------------------------------------------
\* lines 281-289, 300-321, 370-385: the next target, or the response
LoopNext(w) ==
    LET r == req[w] IN
    /\ r.pc = "loop"
    /\ req' = [req EXCEPT ![w] =
          IF r.idx < Len(r.targets)
          THEN [r EXCEPT !.idx = r.idx + 1, !.proj = r.targets[r.idx + 1],
                         !.status = NoGid, !.tlist = <<>>, !.k = 0,
                         !.totals = ZeroTotals, !.summary = STATUS_TASK_NOTES,
                         !.before = <<>>, !.outcome = "none", !.afail = FALSE,
                         !.ffail = FALSE, !.writes = 0, !.trace = <<>>,
                         !.dlog = <<>>, !.evTargets = <<>>,
                         !.pc = IF r.route = "setup" THEN "setup_find" ELSE "upm_fields"]
          ELSE [r EXCEPT !.pc = "done", !.resp = Respond(r), !.outcome = "none",
                         !.afail = FALSE, !.ffail = FALSE, !.writes = 0, !.trace = <<>>,
                         !.proj = "", !.now = 0,
                         !.status = NoGid,
                         !.before = <<>>,
                         !.dlog = <<>>, !.evTargets = <<>>]]
    /\ UNCHANGED <<cfs, tasks, secret, traffic, reqsLeft, failsLeft, clock, webhooks>>

\* setup, line 302
SetupFind(w) ==
    LET r == req[w] IN
    /\ r.pc = "setup_find"
    /\ \E fail \in Fails :
          LET st == FindStatusTask(r.proj, fail)
          IN  /\ req' = [req EXCEPT ![w] =
                    [r EXCEPT !.gw = TRUE, !.ffail = fail,
                              !.pc = IF st = NoGid THEN "setup_create_ws" ELSE "upm_fields"]]
              /\ Spend(fail)
    /\ UNCHANGED <<cfs, tasks, secret, traffic, reqsLeft, clock, webhooks>>

\* setup, lines 303-304, in create_status_task, lines 84-87: the project's
\* workspace; without it nothing is created, and setup does not look at the
\* result
SetupCreateWs(w) ==
    LET r == req[w] IN
    /\ r.pc = "setup_create_ws"
    /\ \E fail \in Fails :
          LET workspace_id == GetProjectWorkspace(r.proj, fail)
          IN  /\ req' = [req EXCEPT ![w] =
                    [r EXCEPT !.gw = TRUE,
                              !.pc = IF workspace_id = NoField THEN "upm_fields"
                                     ELSE "setup_create"]]
              /\ Spend(fail)
    /\ UNCHANGED <<cfs, tasks, secret, traffic, reqsLeft, clock, webhooks>>

\* setup, lines 303-304, in create_status_task, lines 89-99: the creation;
\* the result is not looked at
SetupCreate(w) ==
    LET r == req[w] IN
    /\ r.pc = "setup_create"
    /\ \E fail \in Fails :
          LET c == CreateInWorkspace(r.proj, fail)
          IN  /\ tasks' = c.tasks
              /\ req' = [req EXCEPT ![w] = [r EXCEPT !.gw = TRUE, !.pc = "upm_fields"]]
              /\ Spend(fail)
    /\ UNCHANGED <<cfs, secret, traffic, reqsLeft, clock, webhooks>>

\* ------------------------------------------------------------------------
\* Actions: update_project_metrics, one gateway call per step
\* ------------------------------------------------------------------------
\* lines 105-113: the timestamp and the custom fields; the call of
\* tasks.find_by_project at line 113 returns the client's generator and makes
\* no request: the listing is requested when the loop of line 129 starts
UpmFields(w) ==
    LET r == req[w] IN
    /\ r.pc = "upm_fields"
    /\ \E fail \in Fails, tick \in {0, 1} :
          LET gids == GetCustomFields(r.proj, fail)
              r1 == [r EXCEPT !.gw = TRUE, !.now = clock + tick,
                              !.before = NotesOf(r.proj),
                              !.trace = Append(r.trace, "fields")]
          IN  /\ clock + tick <= MaxClock
              /\ clock' = clock + tick
              /\ req' = [req EXCEPT ![w] =
                    IF BothFields(gids) THEN [r1 EXCEPT !.pc = "upm_find"]
                    ELSE UpmReturn(r1, FALSE, "nofields")]
              /\ Spend(fail)
    /\ UNCHANGED <<cfs, tasks, secret, traffic, reqsLeft, webhooks>>

\* lines 122-123: find_status_task
UpmFind(w) ==
    LET r == [req[w] EXCEPT !.trace = Append(req[w].trace, "find")] IN
    /\ r.pc = "upm_find"
    /\ \E fail \in Fails :
          LET st == FindStatusTask(r.proj, fail)
          IN  /\ req' = [req EXCEPT ![w] =
                    [r EXCEPT !.status = st, !.ffail = fail,
                              !.pc = IF st = NoGid THEN "upm_create_ws" ELSE "upm_iter"]]
              /\ Spend(fail)
    /\ UNCHANGED <<cfs, tasks, secret, traffic, reqsLeft, clock, webhooks>>

\* lines 124-126, in create_status_task, lines 84-87: the project's workspace;
\* without it create_status_task returns None and the pass returns False
UpmCreateWs(w) ==
    LET r == [req[w] EXCEPT !.trace = Append(req[w].trace, "workspace")] IN
    /\ r.pc = "upm_create_ws"
    /\ \E fail \in Fails :
          LET workspace_id == GetProjectWorkspace(r.proj, fail)
          IN  /\ req' = [req EXCEPT ![w] =
                    IF workspace_id = NoField THEN UpmReturn(r, FALSE, "nostatus")
                    ELSE [r EXCEPT !.pc = "upm_create"]]
              /\ Spend(fail)
    /\ UNCHANGED <<cfs, tasks, secret, traffic, reqsLeft, clock, webhooks>>

\* lines 124-126, in create_status_task, lines 89-99: the creation
UpmCreate(w) ==
    LET r == [req[w] EXCEPT !.trace = Append(req[w].trace, "create")] IN
    /\ r.pc = "upm_create"
    /\ \E fail \in Fails :
          LET c == CreateInWorkspace(r.proj, fail)
          IN  /\ tasks' = c.tasks
              /\ req' = [req EXCEPT ![w] =
                    IF c.gid = NoGid THEN UpmReturn(r, FALSE, "nostatus")
                    ELSE [r EXCEPT !.status = c.gid, !.pc = "upm_iter"]]
              /\ Spend(fail)
    /\ UNCHANGED <<cfs, secret, traffic, reqsLeft, clock, webhooks>>

\* the loop's position after the task list is known
AtTaskSkipsName(r, tlist, k) ==
    [r EXCEPT !.tlist = tlist, !.k = k,
              !.pc = IF k > Len(tlist) THEN "upm_write" ELSE "upm_detail"]
AtTask(r, tlist, k) ==
    [r EXCEPT !.tlist = tlist, !.k = k,
              !.pc = IF k > Len(tlist) THEN "upm_name" ELSE "upm_detail"]

\* line 129: the loop starts and the generator of line 113 requests the
\* project's tasks
UpmIterate(w) ==
    LET r == [req[w] EXCEPT !.trace = Append(req[w].trace, "list")] IN
    /\ r.pc = "upm_iter"
    /\ \E fail \in Fails :
          /\ req' = [req EXCEPT ![w] =
                IF fail THEN ExceptReturn([r EXCEPT !.afail = TRUE], "listfail")
                ELSE AtTask(r, ProjectTasks(r.proj),
                            NextIndex(ProjectTasks(r.proj), 1, r.status))]
          /\ Spend(fail)
    /\ UNCHANGED <<cfs, tasks, secret, traffic, reqsLeft, clock, webhooks>>

\* lines 130-167: one task that is not skipped: its detail and its contribution
UpmDetail(w) ==
    LET r == [req[w] EXCEPT !.trace = Append(req[w].trace, "detail")]
        gid == r.tlist[r.k]
    IN
    /\ r.pc = "upm_detail"
    /\ \E fail \in Fails :
          /\ req' = [req EXCEPT ![w] =
                IF fail THEN ExceptReturn([r EXCEPT !.afail = TRUE], "detailfail")
                ELSE AtTask([r EXCEPT !.totals = Accumulate(r.totals, tasks[gid].name, tasks[gid])],
                            r.tlist, NextIndex(r.tlist, r.k + 1, r.status))]
          /\ Spend(fail)
    /\ UNCHANGED <<cfs, tasks, secret, traffic, reqsLeft, clock, webhooks>>

\* lines 169-202: the rates, the project's name and the rendered summary
UpmName(w) ==
    LET r == [req[w] EXCEPT !.trace = Append(req[w].trace, "name")] IN
    /\ r.pc = "upm_name"
    /\ \E fail \in Fails :
          /\ req' = [req EXCEPT ![w] =
                IF fail THEN ExceptReturn([r EXCEPT !.afail = TRUE], "namefail")
                ELSE [r EXCEPT !.summary = Summary(ProjectName(r.proj), r.totals, r.now),
                               !.pc = "upm_write"]]
          /\ Spend(fail)
    /\ UNCHANGED <<cfs, tasks, secret, traffic, reqsLeft, clock, webhooks>>

\* lines 205-207: client.tasks.update(status_task_gid, {'notes': summary});
\* the store after the call
WriteNotesDespiteFailure(gid, summary, fail) == [tasks EXCEPT ![gid].notes = summary]
WriteNotes(gid, summary, fail) ==
    IF fail THEN tasks ELSE [tasks EXCEPT ![gid].notes = summary]

\* lines 205-214: the note is written and the call returns
UpmWrite(w) ==
    LET r == [req[w] EXCEPT !.trace = Append(req[w].trace, "write")] IN
    /\ r.pc = "upm_write"
    /\ \E fail \in Fails :
          /\ tasks' = WriteNotes(r.status, r.summary, fail)
          /\ req' = [req EXCEPT ![w] =
                IF fail THEN ExceptReturn(r, "writefail")
                ELSE UpmReturn([r EXCEPT !.written = r.written \cup {r.proj},
                                         !.writes = r.writes + 1], TRUE, "ok")]
          /\ Spend(fail)
    /\ UNCHANGED <<cfs, secret, traffic, reqsLeft, clock, webhooks>>

\* ------------------------------------------------------------------------
\* Initial states
\* ------------------------------------------------------------------------
UserTask(name, projects, est, act) ==
    [name |-> name, projects |-> projects, est |-> est, act |-> act,
     notes |-> [kind |-> "user"]]

\* the status tasks of the projects of ps, in the order of ProjectOrder
RECURSIVE StatusTasks(_, _)
StatusTasks(ps, i) ==
    IF i > Len(ProjectOrder) THEN <<>>
    ELSE (IF ProjectOrder[i] \in ps THEN <<NewStatusTask(ProjectOrder[i])>> ELSE <<>>)
         \o StatusTasks(ps, i + 1)

AllEligible == [p \in Projects |-> FieldNames]

\* two user tasks: task 1 in P1 and P2, over budget; task 2 in P3, no cost yet
BaseTasks ==
    << UserTask("A", <<"P1", "P2">>, 100, 150), UserTask("B", <<"P3">>, 100, 0) >>

OnlyP1 == [p \in Projects |-> IF p = "P1" THEN FieldNames ELSE {}]

\* the requests of the single-project scenarios: two handshakes with
\* different secrets (one with an event body), an event delivery, a body that
\* does not parse, a delivery whose second event is not an object, and the
\* five GET endpoints, /update-status also with a body of events
HookRequests ==
    { Request("webhook", "abc123", EventsBody(<<TaskEvent(1)>>)),
      Request("webhook", "xyz789", NoBody),
      Request("webhook", NoSecret, EventsBody(<<TaskEvent(1)>>)),
      Request("webhook", NoSecret, Malformed),
      Request("webhook", NoSecret, EventsBody(<<TaskEvent(1), BadEvent>>)),
      Request("setup", NoSecret, NoBody),
      Request("update", NoSecret, NoBody),
      Request("update-status", NoSecret, NoBody),
      Request("update-status", NoSecret, EventsBody(<<BadEvent>>)),
      Request("health", NoSecret, NoBody),
      Request("register-webhook", NoSecret, NoBody) }

\* one eligible project with one user task, with or without its status task;
\* one request at a time: worker 2 never runs
Init ==
    /\ cfs = OnlyP1
    /\ \E ps \in {{}, {"P1"}} :
          tasks = <<UserTask("A", <<"P1">>, 100, 150)>> \o StatusTasks(ps, 1)
    /\ secret = NoSecret
    /\ traffic = HookRequests
    /\ reqsLeft = MaxReqs
    /\ req = [w \in Workers |-> IF w = 1 THEN IdleReq ELSE OffReq]
    /\ failsLeft = MaxFails
    /\ clock = 0
    /\ webhooks = <<>>

\* the steps of determine_projects_to_update
DetStep(w) ==
    \/ DetTask(w)
    \/ DetFields(w)
    \/ DetWorkspace(w)
    \/ DetProjects(w)
    \/ DetWsFields(w)

\* the steps of a pass: the loop over the targets and update_project_metrics
PassStep(w) ==
    \/ LoopNext(w)
    \/ SetupFind(w)
    \/ SetupCreateWs(w)
    \/ SetupCreate(w)
    \/ UpmFields(w)
    \/ UpmFind(w)
    \/ UpmCreateWs(w)
    \/ UpmCreate(w)
    \/ UpmIterate(w)
    \/ UpmDetail(w)
    \/ UpmName(w)
    \/ UpmWrite(w)

Next ==
    \E w \in Workers :
        \/ WebhookHandshake(w)
        \/ HandshakeRespond(w)
        \/ WebhookEvent(w)
        \/ Setup(w)
        \/ ManualUpdate(w)
        \/ UpdateStatus(w)
        \/ UsName(w)
        \/ Health(w)
        \/ RegisterWebhook(w)
        \/ RegisterCreate(w)
        \/ DetStep(w)
        \/ PassStep(w)

Spec == Init /\ [][Next]_vars

\* ------------------------------------------------------------------------
\* Passes over three eligible projects, one request at a time
\* ------------------------------------------------------------------------
PassRequests ==
    { Request("webhook", NoSecret, EventsBody(<<TaskEvent(1), TaskEvent(2)>>)),
      Request("setup", NoSecret, NoBody),
      Request("update", NoSecret, NoBody) }

InitPasses ==
    /\ cfs = AllEligible
    /\ \E ps \in {{}, {"P1"}, Projects} : tasks = BaseTasks \o StatusTasks(ps, 1)
    /\ secret = NoSecret
    /\ traffic = PassRequests
    /\ reqsLeft = MaxReqs
    /\ req = [w \in Workers |-> IF w = 1 THEN IdleReq ELSE OffReq]
    /\ failsLeft = MaxFails
    /\ clock = 0
    /\ webhooks = <<>>

NextPasses ==
    \E w \in Workers :
        \/ WebhookEvent(w)
        \/ Setup(w)
        \/ ManualUpdate(w)
        \/ DetStep(w)
        \/ PassStep(w)

SpecPasses == InitPasses /\ [][NextPasses]_vars

\* ------------------------------------------------------------------------
\* The target determination alone, over the custom field settings and events
\* ------------------------------------------------------------------------
EventAlphabet ==
    { TaskEvent(1), TaskEvent(2),
      [rtype |-> "task", gid |-> NoGid],
      [rtype |-> "story", gid |-> 1] }
FieldSettings == {FieldNames, {ESTIMATED_COST_FIELD}, {ACTUAL_COST_FIELD}, {}}

\* event deliveries over the alphabet, and GET requests without and with a
\* body of events
TargetRequests ==
    {Request("webhook", NoSecret, NoBody), Request("setup", NoSecret, NoBody),
     Request("update", NoSecret, NoBody),
     Request("setup", NoSecret, EventsBody(<<TaskEvent(2)>>)),
     Request("update", NoSecret, EventsBody(<<BadEvent>>))}
    \cup {Request("webhook", NoSecret, EventsBody(evs)) : evs \in SeqsUpTo(EventAlphabet, MaxEvents)}

InitTargets ==
    /\ cfs \in {f \in [Projects -> FieldSettings] : f["P3"] \in {FieldNames, {}}}
    /\ tasks = BaseTasks
    /\ secret = NoSecret
    /\ traffic = TargetRequests
    /\ reqsLeft = 1
    /\ req = [w \in Workers |-> IF w = 1 THEN IdleReq ELSE OffReq]
    /\ failsLeft = MaxFails
    /\ clock = 0
    /\ webhooks = <<>>

NextTargets ==
    \E w \in Workers :
        \/ WebhookEvent(w)
        \/ Setup(w)
        \/ ManualUpdate(w)
        \/ DetStep(w)

SpecTargets == InitTargets /\ [][NextTargets]_vars

\* ------------------------------------------------------------------------
\* The summary of one project over its tasks' cost fields
\* ------------------------------------------------------------------------
\* the (estimated, actual) values of a task's cost fields: no value at all, no
\* cost incurred yet, over budget, over budget without an estimate, on budget
CostPairs ==
    { <<NoValue, NoValue>>, <<100, 0>>, <<100, 150>>, <<NoValue, 150>>, <<100, 100>> }
TaskName(i) == "T" \o ToString(i)
\* P1's user tasks for a sequence of cost pairs
CostTasks(cs) ==
    [i \in 1..Len(cs) |-> UserTask(TaskName(i), <<"P1">>, cs[i][1], cs[i][2])]

SummaryRequests == {Request("update", NoSecret, NoBody)}

\* P1 alone is eligible; it has up to MaxTasks user tasks and either no status
\* task yet or one that is enumerated first; two requests, one after the other
InitSummary ==
    /\ cfs = OnlyP1
    /\ \E cs \in SeqsUpTo(CostPairs, MaxTasks), ps \in {{}, {"P1"}} :
          tasks = StatusTasks(ps, 1) \o CostTasks(cs)
    /\ secret = NoSecret
    /\ traffic = SummaryRequests
    /\ reqsLeft = 2
    /\ req = [w \in Workers |-> IF w = 1 THEN IdleReq ELSE OffReq]
    /\ failsLeft = MaxFails
    /\ clock = 0
    /\ webhooks = <<>>

\* GET /update and the steps of its passes
NextSummary ==
    \E w \in Workers :
        \/ ManualUpdate(w)
        \/ DetWorkspace(w)
        \/ DetProjects(w)
        \/ DetWsFields(w)
        \/ LoopNext(w)
        \/ UpmFields(w)
        \/ UpmFind(w)
        \/ UpmCreateWs(w)
        \/ UpmCreate(w)
        \/ UpmIterate(w)
        \/ UpmDetail(w)
        \/ UpmName(w)
        \/ UpmWrite(w)

SpecSummary == InitSummary /\ [][NextSummary]_vars

\* ------------------------------------------------------------------------
\* Two requests in flight at once, no gateway failure
\* ------------------------------------------------------------------------
ConcRequests ==
    { Request("webhook", "abc123", NoBody),
      Request("webhook", "xyz789", NoBody),
      Request("webhook", NoSecret, EventsBody(<<TaskEvent(1)>>)),
      Request("setup", NoSecret, NoBody),
      Request("update", NoSecret, NoBody),
      Request("update-status", NoSecret, NoBody),
      Request("health", NoSecret, NoBody),
      Request("register-webhook", NoSecret, NoBody) }

InitConc ==
    /\ cfs = OnlyP1
    /\ \E ps \in {{}, {"P1"}} :
          tasks = <<UserTask("A", <<"P1">>, 100, 150)>> \o StatusTasks(ps, 1)
    /\ secret = NoSecret
    /\ traffic = ConcRequests
    /\ reqsLeft = MaxReqs
    /\ req = [w \in Workers |-> IdleReq]
    /\ failsLeft = 0
    /\ clock = 0
    /\ webhooks = <<>>

SpecConc == InitConc /\ [][Next]_vars

\* ------------------------------------------------------------------------
\* Handshakes in flight at once, among requests without the header
\* ------------------------------------------------------------------------
HandshakeRequests ==
    {Request("webhook", s, NoBody) : s \in Secrets}
    \cup {Request("webhook", NoSecret, Malformed), Request("health", NoSecret, NoBody)}

InitHandshakes ==
    /\ cfs = OnlyP1
    /\ tasks = <<UserTask("A", <<"P1">>, 100, 150)>>
    /\ secret = NoSecret
    /\ traffic = HandshakeRequests
    /\ reqsLeft = MaxReqs
    /\ req = [w \in Workers |-> IdleReq]
    /\ failsLeft = 0
    /\ clock = 0
    /\ webhooks = <<>>

NextHandshakes ==
    \E w \in Workers :
        \/ WebhookHandshake(w)
        \/ HandshakeRespond(w)
        \/ WebhookEvent(w)
        \/ Health(w)

SpecHandshakes == InitHandshakes /\ [][NextHandshakes]_vars

\* ------------------------------------------------------------------------
\* Properties
\* ------------------------------------------------------------------------
\* the tasks of a project that carry the sentinel name
StatusTasksOf(p) == {t \in Range(ProjectTasks(p)) : tasks[t].name = STATUS_TASK_NAME}
Eligible(p) == {ESTIMATED_COST_FIELD, ACTUAL_COST_FIELD} \subseteq cfs[p]
\* a worker has just come back from determine_projects_to_update
JustDetermined(r) == r.pc = "loop" /\ r.idx = 0 /\ r.det
\* a worker has just come back from update_project_metrics
JustReturned(r) == r.pc = "loop" /\ r.outcome # "none"
\* a worker has answered a request that ran the loop over its targets
PassDone(r) == r.pc = "done" /\ r.det

\* C1: with requests handled one after another, no project ever holds two
\* tasks named 'Project Status', and a project whose update a pass has
\* reported as successful holds exactly one, also under transient gateway
\* failures.
C1_OneStatusTaskSequential ==
    \A p \in Projects :
        /\ Cardinality(StatusTasksOf(p)) <= 1
        /\ \A w \in Workers :
              (PassDone(req[w]) /\ p \in DOMAIN req[w].resp.results
                  /\ req[w].resp.results[p])
              => Cardinality(StatusTasksOf(p)) = 1

\* C2: with two requests in flight at once and no gateway failure, no state
\* of the remote store holds two sentinel tasks in one project.
C2_NoSecondStatusTaskConcurrent ==
    ~ \E p \in Projects : \E t1, t2 \in StatusTasksOf(p) : t1 # t2

\* C3: the result map of a pass has one boolean entry for every target that
\* has been processed, all targets once the pass has answered; an entry is
\* true exactly for the projects whose note the pass wrote, so that a failed
\* project neither ends the loop nor keeps a later project from its update.
C3_FailureIsolated ==
    \A w \in Workers :
        LET r == req[w] IN
        /\ (r.pc = "loop" /\ r.det)
              => DOMAIN r.results = {r.targets[i] : i \in 1..r.idx}
        /\ PassDone(r)
              => /\ r.resp.status \in {200, 500}
                 /\ DOMAIN r.resp.results = Range(r.targets)
                 /\ \A p \in Range(r.targets) : r.resp.results[p] = (p \in r.written)

\* C3 witness: three targets, the second failed, the first and the third
\* reported true with their status notes written.
C3_Witness ==
    LET r == req[1] IN
    /\ PassDone(r)
    /\ r.targets = <<"P1", "P2", "P3">>
    /\ r.resp.results["P1"] /\ ~r.resp.results["P2"] /\ r.resp.results["P3"]
    /\ r.written = {"P1", "P3"}
    /\ \A p \in {"P1", "P3"} : \E t \in StatusTasksOf(p) : tasks[t].notes.kind = "summary"
    /\ \A t \in StatusTasksOf("P2") : tasks[t].notes.kind = "placeholder"

\* C4: when a gateway call of the aggregation (the task listing, a task's
\* detail, the project's name) has failed in a call of update_project_metrics,
\* the call returns false having written no note; and after such a failure,
\* or a failed listing in find_status_task, every task the project had when
\* the call began has the note it had then.
C4_NoWriteAfterAggregationFailure ==
    \A w \in Workers :
        LET r == req[w] IN
        /\ (JustReturned(r) /\ r.afail)
              => r.results[r.proj] = FALSE /\ r.proj \notin r.written
        /\ (JustReturned(r) /\ (r.afail \/ r.ffail))
              => \A t \in DOMAIN r.before : tasks[t].notes = r.before[t]

\* C4 witness: the detail fetch failed after an earlier pass had written a
\* summary onto the project's status task.
C4_Witness ==
    LET r == req[1] IN
    /\ JustReturned(r) /\ r.afail /\ r.outcome = "detailfail"
    /\ \E t \in DOMAIN r.before : r.before[t].kind = "summary"

\* C5: a summary that has just been written counts none of the project's
\* tasks named 'Project Status': its total is the number of the other tasks.
C5_StatusTaskNeverCounted ==
    \A w \in Workers :
        LET r == req[w] IN
        (JustReturned(r) /\ r.outcome = "ok")
        => tasks[r.status].notes.total_tasks
             = Cardinality(Range(ProjectTasks(r.proj)) \ StatusTasksOf(r.proj))

\* C6: every project returned by determine_projects_to_update has both the
\* estimated-cost and the actual-cost field in its custom field settings.
C6_TargetsAreEligible ==
    \A w \in Workers :
        req[w].det => \A p \in Range(req[w].targets) : Eligible(p)

\* C6 witness: the event's task belongs to P1 and P2, P2 lacks the actual-cost
\* field and the fallback did not run: P1 alone is returned.
C6_Witness ==
    LET r == req[1] IN
    /\ JustDetermined(r)
    /\ r.body = EventsBody(<<TaskEvent(1)>>)
    /\ cfs["P2"] = {ESTIMATED_COST_FIELD}
    /\ r.targets = <<"P1">>

\* the parent projects of the tasks the events name that are eligible
EligibleParents(evs) ==
    {p \in Projects :
        /\ Eligible(p)
        /\ \E j \in 1..Len(evs) :
              /\ evs[j].rtype = "task"
              /\ evs[j].gid \in 1..Len(tasks)
              /\ p \in Range(tasks[evs[j].gid].projects)}
Enumerated(log) == \E i \in 1..Len(log) : log[i].op = "workspace"
NoCallFailed(log) == \A i \in 1..Len(log) : log[i].ok

\* C7 as stated: whenever the events' tasks have an eligible parent project,
\* the result is exactly the eligible parents and the workspace is not
\* enumerated.
C7_Original ==
    \A w \in Workers :
        LET r == req[w] IN
        (JustDetermined(r) /\ r.event_data.kind = "events"
            /\ EligibleParents(r.event_data.events) # {})
        => /\ Range(r.targets) = EligibleParents(r.event_data.events)
           /\ ~Enumerated(r.dlog)

\* a fetch of the task succeeded
FetchedOk(log, gid) ==
    \E i \in 1..Len(log) : log[i].op = "task" /\ log[i].gid = gid /\ log[i].ok
\* the parent projects of the tasks the events name whose fetch succeeded
FetchedParents(evs, log) ==
    {p \in Projects :
        \E j \in 1..Len(evs) :
            /\ evs[j].rtype = "task"
            /\ evs[j].gid \in 1..Len(tasks)
            /\ FetchedOk(log, evs[j].gid)
            /\ p \in Range(tasks[evs[j].gid].projects)}
\* a custom-field lookup of p in the loop over the events, before any
\* enumeration, with the given outcome
EventLookup(log, p, ok) ==
    \E i \in 1..Len(log) :
        /\ log[i].op = "fields" /\ log[i].proj = p /\ log[i].ok = ok
        /\ \A h \in 1..(i - 1) : log[h].op # "workspace"

\* C7 amended: the loop over the events keeps exactly the eligible parents for
\* which a custom-field lookup succeeded; an eligible parent of a fetched task
\* is left out only when a lookup of it failed (a parent whose tasks' fetches
\* all failed is never looked up). When a parent is kept the result is the
\* kept parents and the workspace is not enumerated; when none is kept the
\* determination goes on to the workspace lookup of the fallback.
C7_EventTargets ==
    \A w \in Workers :
        LET r == req[w]
            evs == r.event_data.events
            kept == {p \in EligibleParents(evs) : EventLookup(r.dlog, p, TRUE)}
        IN
        (JustDetermined(r) /\ r.event_data.kind = "events" /\ EligibleParents(evs) # {})
        => /\ Range(r.evTargets) = kept
           /\ kept \subseteq FetchedParents(evs, r.dlog)
           /\ \A p \in EligibleParents(evs) \cap FetchedParents(evs, r.dlog) :
                 p \in kept \/ EventLookup(r.dlog, p, FALSE)
           /\ IF kept # {}
              THEN Range(r.targets) = kept /\ ~Enumerated(r.dlog)
              ELSE Enumerated(r.dlog)

\* C7 witness: a story event and an event for the task in P1 and P2, with only
\* P1 eligible: exactly P1, no call failed, no enumeration.
C7_Witness ==
    LET r == req[1] IN
    /\ JustDetermined(r)
    /\ r.body = EventsBody(<<[rtype |-> "story", gid |-> 1], TaskEvent(1)>>)
    /\ Eligible("P1") /\ ~Eligible("P2") /\ Eligible("P3")
    /\ NoCallFailed(r.dlog)
    /\ r.targets = <<"P1">>

\* the eligible projects of the reference project's workspace
WorkspaceEligible ==
    {p \in Projects : WorkspaceOf(p) = WorkspaceOf(TEMPLATE_PROJECT_ID) /\ Eligible(p)}
CallOk(log, op) == \E i \in 1..Len(log) : log[i].op = op /\ log[i].ok
\* the field lookup the enumeration made for p succeeded
LookupOk(log, p) ==
    \E i, j \in 1..Len(log) :
        /\ log[i].op = "projects" /\ i < j
        /\ log[j].op = "fields" /\ log[j].proj = p /\ log[j].ok

\* C8 as stated: without eligible projects from an event, the result is
\* exactly the eligible projects of the reference workspace, or empty when the
\* workspace could not be resolved.
C8_Original ==
    \A w \in Workers :
        LET r == req[w] IN
        (JustDetermined(r) /\ r.evTargets = <<>>)
        => IF CallOk(r.dlog, "workspace")
           THEN Range(r.targets) = WorkspaceEligible
           ELSE r.targets = <<>>

\* C8 amended: the result is exactly the eligible projects of the reference
\* workspace whose field lookup did not fail, and it is empty when the
\* workspace could not be resolved or the listing of its projects failed.
C8_FallbackTargets ==
    \A w \in Workers :
        LET r == req[w] IN
        (JustDetermined(r) /\ r.evTargets = <<>>)
        => IF CallOk(r.dlog, "workspace") /\ CallOk(r.dlog, "projects")
           THEN Range(r.targets) = {p \in WorkspaceEligible : LookupOk(r.dlog, p)}
           ELSE r.targets = <<>>

\* a state of C7's amendment: of the eligible parents P1 and P2 of the event's
\* task the lookup of P1 failed, and P2 alone is returned without enumeration
C7_DroppedParent ==
    LET r == req[1] IN
    /\ JustDetermined(r)
    /\ r.event_data = EventsBody(<<TaskEvent(1)>>)
    /\ Eligible("P1") /\ Eligible("P2")
    /\ EventLookup(r.dlog, "P1", FALSE)
    /\ r.targets = <<"P2">> /\ ~Enumerated(r.dlog)

\* a state of C7's amendment: the lookup of an ineligible parent failed and
\* the result is still exactly the eligible parent, without enumeration
C7_IneligibleLookupFailed ==
    LET r == req[1] IN
    /\ JustDetermined(r)
    /\ r.event_data = EventsBody(<<TaskEvent(1)>>)
    /\ Eligible("P1") /\ ~Eligible("P2")
    /\ EventLookup(r.dlog, "P2", FALSE)
    /\ r.targets = <<"P1">> /\ ~Enumerated(r.dlog)

\* a state of C7's amendment: the fetch of the only task failed, no parent is
\* kept and the workspace is enumerated
C7_FetchFailed ==
    LET r == req[1] IN
    /\ JustDetermined(r)
    /\ r.event_data = EventsBody(<<TaskEvent(1)>>)
    /\ Eligible("P1")
    /\ ~FetchedOk(r.dlog, 1)
    /\ r.evTargets = <<>> /\ Enumerated(r.dlog)

\* C8 witness: an event whose only parent projects are ineligible, P1 and P3
\* eligible: the enumeration of P1's workspace returns P1 alone.
C8_Witness ==
    LET r == req[1] IN
    /\ JustDetermined(r)
    /\ r.body = EventsBody(<<TaskEvent(2)>>)
    /\ Eligible("P1") /\ ~Eligible("P2") /\ ~Eligible("P3")
    /\ NoCallFailed(r.dlog)
    /\ r.targets = <<"P1">>

\* C9: an answered handshake request has status 200, echoes its own secret in
\* the response header, and leaves that secret stored.
C9_HandshakeEcho ==
    \A w \in Workers :
        LET r == req[w] IN
        (r.pc = "done" /\ r.route = "webhook" /\ r.hook # NoSecret)
        => /\ r.resp.status = 200
           /\ r.resp.hook = r.hook
           /\ secret = r.hook

\* C9 witness: a second handshake whose secret replaced the first one.
C9_Witness ==
    LET r == req[1] IN
    /\ r.pc = "done" /\ r.route = "webhook"
    /\ r.hook = "xyz789" /\ r.secret0 = "abc123"
    /\ r.resp.hook = "xyz789" /\ secret = "xyz789"

\* C10: a request with the handshake header never determines targets, makes
\* no gateway call and writes no note; it only stores and echoes.
C10_HandshakeOnly ==
    \A w \in Workers :
        LET r == req[w] IN
        (r.route = "webhook" /\ r.hook # NoSecret)
        => /\ r.pc \in {"hs_respond", "done"}
           /\ ~r.det /\ ~r.gw /\ r.written = {} /\ r.targets = <<>>
           /\ r.pc = "done" => r.resp.tag = "echo"

\* C10 witness: an answered handshake whose body carried a task event.
C10_Witness ==
    LET r == req[1] IN
    /\ r.pc = "done" /\ r.hook = "abc123"
    /\ r.body = EventsBody(<<TaskEvent(1)>>)
    /\ r.resp.tag = "echo"

\* C11: every step taken for a request without the handshake header (an event
\* delivery, a body that does not parse, /setup, /update, /update-status,
\* /health, /register-webhook) leaves the stored handshake secret as it was.
C11_SecretReadOnlyElsewhere ==
    [][\A w \in Workers :
          (req'[w] # req[w] /\ req'[w].hook = NoSecret) => secret' = secret]_vars

\* C11 witness: a delivery whose body does not parse has been answered with
\* 500 while the secret of an earlier handshake is still stored.
C11_Witness ==
    LET r == req[1] IN
    /\ r.pc = "done" /\ r.route = "webhook" /\ r.hook = NoSecret
    /\ r.body = Malformed /\ r.resp.status = 500
    /\ r.secret0 = "abc123" /\ secret = "abc123"

\* C11, a second case: the determination raised on an event that is not an
\* object, after a gateway call for the event before it; 500, secret kept.
C11_RaisedInEvents ==
    LET r == req[1] IN
    /\ r.pc = "done" /\ r.route = "webhook" /\ r.hook = NoSecret
    /\ r.body = EventsBody(<<TaskEvent(1), BadEvent>>)
    /\ r.gw /\ ~r.det /\ r.resp.status = 500
    /\ r.secret0 = "xyz789" /\ secret = "xyz789"

\* a rendered note without its timestamp line
SansTimestamp(note) == [note EXCEPT !.updated = 0]

\* C12: when no gateway call has failed and a pass writes its summary onto a
\* status task that carries the summary of the pass before it, the two notes
\* are equal apart from the timestamp; the pass before may be the one that
\* created the status task.
C12_IdempotentModuloTimestamp ==
    \A w \in Workers :
        LET r == req[w] IN
        (/\ JustReturned(r) /\ r.outcome = "ok"
         /\ failsLeft = MaxFails
         /\ r.status \in DOMAIN r.before
         /\ r.before[r.status].kind = "summary")
        => SansTimestamp(tasks[r.status].notes) = SansTimestamp(r.before[r.status])

\* C12 witness: the project started without a status task, the first pass
\* created it behind two user tasks, and the second pass, one second later,
\* has written the same summary with a later timestamp.
C12_Witness ==
    LET r == req[1] IN
    /\ JustReturned(r) /\ r.outcome = "ok" /\ failsLeft = MaxFails
    /\ Len(tasks) = 3 /\ r.status = 3
    /\ 3 \in DOMAIN r.before
    /\ r.before[3].kind = "summary"
    /\ r.before[3].updated = 0 /\ tasks[3].notes.updated = 1
    /\ tasks[3].notes.total_tasks = 2
    /\ SansTimestamp(tasks[3].notes) = SansTimestamp(r.before[3])

\* the project's tasks that do not carry the sentinel name, in enumeration order
NonStatusTasks(p) ==
    LET Other(t) == tasks[t].name # STATUS_TASK_NAME
    IN  SelectSeq(ProjectTasks(p), Other)
\* a field value as the summary reads it: a missing value is 0
Est(t) == IF tasks[t].est = NoValue THEN 0 ELSE tasks[t].est
Act(t) == IF tasks[t].act = NoValue THEN 0 ELSE tasks[t].act
\* the entries the over-budget list of p's summary is to have
OverBudgetEntries(p) ==
    LET Over(t) == Act(t) > 0 /\ Act(t) > Est(t)
        over == SelectSeq(NonStatusTasks(p), Over)
    IN  [i \in 1..Len(over) |->
            [name |-> tasks[over[i]].name, estimated |-> Est(over[i]),
             actual |-> Act(over[i]), difference |-> Act(over[i]) - Est(over[i])]]

\* C13: the over-budget list of a summary that has just been written has one
\* entry for exactly the non-status tasks with actual > 0 and actual >
\* estimated, in enumeration order, each with difference = actual - estimated
\* > 0; no entry belongs to a task with actual = 0.
C13_OverBudgetList ==
    \A w \in Workers :
        LET r == req[w] IN
        (JustReturned(r) /\ r.outcome = "ok")
        => LET items == tasks[r.status].notes.overbudget_tasks
           IN  /\ items = OverBudgetEntries(r.proj)
               /\ \A i \in 1..Len(items) :
                     /\ items[i].difference > 0
                     /\ items[i].actual > 0
                     /\ items[i].difference = items[i].actual - items[i].estimated

\* C13 witness: a task with estimated 100 and actual 0 and a task with
\* estimated 100 and actual 150: one entry, for the second, with difference 50.
C13_Witness ==
    LET r == req[1] IN
    /\ JustReturned(r) /\ r.outcome = "ok"
    /\ \E t, u \in Range(ProjectTasks(r.proj)) :
          /\ t < u
          /\ tasks[t].est = 100 /\ tasks[t].act = 0
          /\ tasks[u].est = 100 /\ tasks[u].act = 150
          /\ tasks[r.status].notes.overbudget_tasks
                = << [name |-> tasks[u].name, estimated |-> 100, actual |-> 150,
                      difference |-> 50] >>

\* C14: a written summary has percent_complete = 0 when it counts no task and
\* budget_progress = 0 when its estimated total is 0, whatever its actual
\* total; and while no gateway call has failed every pass for the eligible
\* project ends with the note written and the result true, so the rates
\* never make a pass fail.
C14_GuardedRates ==
    \A w \in Workers :
        LET r == req[w] IN
        /\ (JustReturned(r) /\ r.outcome = "ok")
              => LET n == tasks[r.status].notes
                 IN  /\ n.kind = "summary"
                     /\ n.total_tasks = 0 => n.percent_complete = 0
                     /\ n.total_estimated = 0 => n.budget_progress = 0
        /\ (JustReturned(r) /\ failsLeft = MaxFails)
              => r.outcome = "ok" /\ r.results[r.proj]

\* C14 witness: the only task has no estimate and an actual cost of 150; the
\* note is written with a budget utilization of 0 and the pass reports success.
C14_Witness ==
    LET r == req[1] IN
    /\ JustReturned(r) /\ r.outcome = "ok" /\ r.results[r.proj]
    /\ tasks[r.status].notes.total_tasks = 1
    /\ tasks[r.status].notes.total_estimated = 0
    /\ tasks[r.status].notes.total_actual = 150
    /\ tasks[r.status].notes.budget_progress = 0
    /\ tasks[r.status].notes.percent_complete = 1000

\* call a of the trace t is made before call b whenever both are made
Before(t, a, b) == \A i, j \in 1..Len(t) : (t[i] = a /\ t[j] = b) => i < j
\* call a is made only as the last call of the trace t
OnlyLast(t, a) == \A i \in 1..Len(t) : t[i] = a => i = Len(t)
\* a call b of the trace t has a call a before it
Preceded(t, a, b) == \A j \in 1..Len(t) : t[j] = b => \E i \in 1..(j - 1) : t[i] = a

\* C15: in the gateway calls of one update_project_metrics call the status
\* task is found (and created when absent) before the project's tasks are
\* listed for the aggregation; the listing precedes every fetch of a task's
\* detail, the details precede the fetch of the project's name for the
\* rendering, and the note write is the last gateway call of the pass.
C15_StepOrder ==
    \A w \in Workers :
        LET t == req[w].trace IN
        /\ Before(t, "find", "create")
        /\ Before(t, "find", "list") /\ Before(t, "create", "list")
        /\ Before(t, "list", "detail")
        /\ Before(t, "detail", "name")
        /\ Before(t, "name", "write")
        /\ Preceded(t, "find", "list") /\ Preceded(t, "list", "detail")
        /\ Preceded(t, "list", "name")
        /\ Preceded(t, "name", "write")
        /\ OnlyLast(t, "write")

\* C15 witness: a pass over a project with one task and no status task has
\* written its note: the status task was looked for and created, then the
\* tasks were listed, the task's detail and the project's name fetched, and
\* the note written last.
C15_Witness ==
    LET r == req[1] IN
    /\ JustReturned(r) /\ r.outcome = "ok"
    /\ r.trace = <<"fields", "find", "workspace", "create", "list", "detail", "name", "write">>

\* C16: a request that is about to call create_status_task for a project has
\* completed the listing of its Find step, and the project holds no task
\* named 'Project Status'; a Find whose listing failed leads to no create.
C16_CreateOnlyWhenNotFound ==
    \A w \in Workers :
        LET r == req[w] IN
        r.pc \in {"upm_create_ws", "upm_create", "setup_create_ws", "setup_create"}
        => ~r.ffail /\ StatusTasksOf(r.proj) = {}

\* a value summed over the tasks of a sequence of gids
SumOver(ts, Val(_)) == SumSeq([i \in 1..Len(ts) |-> Val(ts[i])])
ActIfPositive(t) == IF Act(t) > 0 THEN Act(t) ELSE 0
HasActual(t) == IF Act(t) > 0 THEN 1 ELSE 0

\* C17: a summary that has just been written has, over the project's tasks
\* not named 'Project Status' with a missing value read as 0: total_tasks =
\* their number, total_estimated = the sum of their estimates, total_actual =
\* the sum of the positive actual costs, completed_tasks = the number of
\* tasks with a positive actual cost, completed_tasks <= total_tasks and
\* remaining = total_estimated - total_actual.
C17_Totals ==
    \A w \in Workers :
        LET r == req[w] IN
        (JustReturned(r) /\ r.outcome = "ok")
        => LET n == tasks[r.status].notes
               ts == NonStatusTasks(r.proj)
           IN  /\ n.total_tasks = Len(ts)
               /\ n.total_estimated = SumOver(ts, Est)
               /\ n.total_actual = SumOver(ts, ActIfPositive)
               /\ n.completed_tasks = SumOver(ts, HasActual)
               /\ n.completed_tasks <= n.total_tasks
               /\ n.remaining = n.total_estimated - n.total_actual

\* C18: an answered GET /update or GET /setup has status 200 and 'success'
\* exactly when the update of at least one target returned true, and status
\* 500 and 'error' otherwise, the empty target list included; an answered
\* event delivery has status 200 and the result map of its targets whatever
\* the results are.
C18_ResponseStatus ==
    \A w \in Workers :
        LET r == req[w]
            anyTrue == \E i \in 1..Len(r.targets) :
                           r.resp.results[r.targets[i]] /\ r.targets[i] \in r.written
        IN  PassDone(r)
            => /\ DOMAIN r.resp.results = Range(r.targets)
               /\ r.route \in {"update", "setup"}
                     => IF anyTrue
                        THEN r.resp.status = 200 /\ r.resp.tag = "success"
                        ELSE r.resp.status = 500 /\ r.resp.tag = "error"
               /\ r.route = "webhook"
                     => r.resp.status = 200 /\ r.resp.tag = "received"

\* C18 witness: an event delivery whose only target failed is answered with
\* 200 and the map {P1: false}.
C18_Witness ==
    LET r == req[1] IN
    /\ PassDone(r) /\ r.route = "webhook"
    /\ r.targets = <<"P1">>
    /\ r.resp.results = [p \in {"P1"} |-> FALSE]
    /\ r.resp.status = 200

\* C18, the other side: GET /update with no target at all is answered with 500.
C18_EmptyTargets ==
    LET r == req[1] IN
    /\ PassDone(r) /\ r.route = "update" /\ r.targets = <<>>
    /\ r.resp.status = 500 /\ r.resp.results = <<>>

\* the tasks, by gid, whose note differs from the one the call started with
Rewritten(r) == {t \in DOMAIN r.before : tasks[t].notes # r.before[t]}

\* C19: a call of update_project_metrics that has just returned reports true
\* exactly when its note write completed; a call that reports false has
\* written nothing and left every note of the project as it was; a call that
\* reports true has made one write, onto its status task, whose note is now
\* the summary rendered by this call and nothing else.
C19_TrueIffNoteWritten ==
    \A w \in Workers :
        LET r == req[w] IN
        JustReturned(r)
        => /\ r.results[r.proj] = (r.outcome = "ok")
           /\ r.results[r.proj] = (r.writes = 1)
           /\ r.writes \in {0, 1}
           /\ ~r.results[r.proj]
                 => /\ Rewritten(r) = {}
                    /\ \A i \in 1..Len(r.trace) :
                          r.trace[i] = "write" => r.outcome = "writefail"
           /\ r.results[r.proj]
                 => /\ Rewritten(r) \subseteq {r.status}
                    /\ r.trace[Len(r.trace)] = "write"
                    /\ tasks[r.status].notes.kind = "summary"
                    /\ tasks[r.status].notes.updated = r.now
                    /\ tasks[r.status].notes.project_name = ProjectName(r.proj)
                    /\ DOMAIN tasks[r.status].notes
                          = DOMAIN Summary(ProjectName(r.proj), ZeroTotals, r.now)

\* C19 witness: the second pass has replaced the summary of the first pass
\* on the status task by its own, one second later.
C19_Witness ==
    LET r == req[1] IN
    /\ JustReturned(r) /\ r.results[r.proj] /\ r.writes = 1
    /\ r.status \in DOMAIN r.before
    /\ r.before[r.status].kind = "summary" /\ r.before[r.status].updated = 0
    /\ tasks[r.status].notes.updated = 1
    /\ Rewritten(r) = {r.status}

\* C19, the other side: the note write itself failed and the call reports false.
C19_WriteFailed ==
    LET r == req[1] IN
    /\ JustReturned(r) /\ r.outcome = "writefail"
    /\ ~r.results[r.proj] /\ r.writes = 0 /\ Rewritten(r) = {}

\* a worker's request is a handshake that has been answered
HandshakeDone(r) == r.pc = "done" /\ r.route = "webhook" /\ r.hook # NoSecret

\* C20: with handshakes in flight at once, every answered handshake has
\* status 200 and echoes the secret of its own request; the stored secret is
\* never lost while a handshake is in progress or answered, and once the
\* requests of all workers are answered handshakes the stored secret is the
\* secret of one of them.
C20_ConcurrentHandshakes ==
    /\ \A w \in Workers :
          HandshakeDone(req[w])
          => req[w].resp.status = 200 /\ req[w].resp.hook = req[w].hook
    /\ \A w \in Workers :
          (req[w].pc \in {"hs_respond", "done"} /\ req[w].hook # NoSecret)
          => secret \in Secrets
    /\ (\A w \in Workers : HandshakeDone(req[w]))
          => secret \in {req[w].hook : w \in Workers}

\* C20 witness: worker 2 stored its secret after worker 1 had stored its own;
\* both are answered, each with its own secret, and the later one is stored.
C20_Witness ==
    /\ HandshakeDone(req[1]) /\ HandshakeDone(req[2])
    /\ req[1].hook = "abc123" /\ req[2].hook = "xyz789"
    /\ req[1].secret0 = NoSecret /\ req[2].secret0 = "abc123"
    /\ req[1].resp.hook = "abc123" /\ req[2].resp.hook = "xyz789"
    /\ secret = "xyz789"

====
